---- MODULE Spec2Model ----
(***************************************************************************)
(* A model of the mcp-core server of rust_misp_mcp: the lifecycle state    *)
(* machine and read-dispatch-write loop of Server (server.rs), the two     *)
(* transports (transport.rs), the error taxonomy (error.rs), the response  *)
(* constructors (protocol.rs), the tool registry (registry.rs) and the     *)
(* MISP tool handlers registered by main.rs.                               *)
(***************************************************************************)
EXTENDS Integers, Sequences, FiniteSets, TLC

VARIABLES
    state,          \* Server.state
    server_info,    \* Server.server_info
    tool_registry,  \* Server.tool_registry.tools : name -> Tool
    pc,             \* position of the task that owns the Server
    transport,      \* which Transport run_with_transport was given
    outOk,          \* stdout still writable / response receiver still alive
    depth,          \* nested read_message frames of the stdio transport
    req,            \* the request handle_next_request is working on
    resp,           \* the response built for req
    pending,        \* the ToolInput of the handler invocation being awaited
    nRead,          \* requests read_message has returned in this run
    written,        \* for each response written in this run, the number of its request
    handlerCalls,   \* handler invocations made for req
    loopErr,        \* the error handle_next_request last returned to the loop
    exit,           \* how the loop was left
    closeCount,     \* calls of transport.close() in this run
    runs,           \* calls of run_with_transport so far
    added,          \* the tools given to add_tool, in call order (kept by SpecRegistry)
    chan,           \* a ChannelTransport's inbound channel and its use (kept by SpecChannel)
    returned        \* what run_with_transport returned, once it has

vars == <<state, server_info, tool_registry, pc, transport, outOk, depth, req, resp,
          pending, nRead, written, handlerCalls, loopErr, exit, closeCount, runs,
          added, chan, returned>>

\* ------------------------------------------------------------------ bounds
MaxRequests == 3
MaxBlank == 2
MaxRuns == 2
MaxAdds == 4
MaxSends == 3

\* ------------------------------------------------------- Option and Result
None == [t |-> "None"]
Some(v) == [t |-> "Some", v |-> v]
Ok(v) == [ok |-> TRUE, v |-> v]
Err(e) == [ok |-> FALSE, e |-> e]

\* ------------------------------------------------------- serde_json::Value
JNull == [j |-> "null", lit |-> "null"]
JNum(lit) == [j |-> "number", lit |-> lit]
JStr(lit) == [j |-> "string", lit |-> lit]
JObj(f) == [j |-> "object", f |-> f]

\* ---------------------------------------------------------------- error.rs
ParseError(m) == [kind |-> "ParseError", name |-> "", message |-> m]
InvalidRequest(m) == [kind |-> "InvalidRequest", name |-> "", message |-> m]
\* the error does not carry the method name
MethodNotFound_NoName(method) == [kind |-> "MethodNotFound", name |-> "", message |-> <<>>]
MethodNotFound(method) == [kind |-> "MethodNotFound", name |-> method, message |-> <<>>]
InvalidParams(m) == [kind |-> "InvalidParams", name |-> "", message |-> m]
InternalError(m) == [kind |-> "InternalError", name |-> "", message |-> m]
ToolNotFound(tool) == [kind |-> "ToolNotFound", name |-> tool, message |-> <<>>]
ToolExecutionError(tool, m) == [kind |-> "ToolExecutionError", name |-> tool, message |-> m]
TransportError(m) == [kind |-> "TransportError", name |-> "", message |-> m]
SerializationError(m) == [kind |-> "SerializationError", name |-> "", message |-> m]

ErrorKinds ==
    {"ParseError", "InvalidRequest", "MethodNotFound", "InvalidParams", "InternalError",
     "ToolNotFound", "ToolExecutionError", "TransportError", "SerializationError"}

\* every error is reported as an internal error
to_json_rpc_code_Internal(e) == -32603

\* McpError::to_json_rpc_code
to_json_rpc_code(e) ==
    CASE e.kind = "ParseError" -> -32700
      [] e.kind = "InvalidRequest" -> -32600
      [] e.kind = "MethodNotFound" -> -32601
      [] e.kind = "InvalidParams" -> -32602
      [] e.kind = "InternalError" -> -32603
      [] e.kind = "ToolNotFound" -> -32000
      [] e.kind = "ToolExecutionError" -> -32001
      [] e.kind = "TransportError" -> -32002
      [] e.kind = "SerializationError" -> -32003

\* The Display text of an McpError (the #[error(...)] attributes), as the
\* sequence of its pieces: the literal prefix followed by the interpolated text.
to_string(e) ==
    CASE e.kind = "ParseError" -> <<"Parse error: ">> \o e.message
      [] e.kind = "InvalidRequest" -> <<"Invalid request: ">> \o e.message
      [] e.kind = "MethodNotFound" -> <<"Method not found: ", e.name>>
      [] e.kind = "InvalidParams" -> <<"Invalid params: ">> \o e.message
      [] e.kind = "InternalError" -> <<"Internal error: ">> \o e.message
      [] e.kind = "ToolNotFound" -> <<"Tool not found: ", e.name>>
      [] e.kind = "ToolExecutionError" ->
            <<"Tool execution failed: ", e.name, " - ">> \o e.message
      [] e.kind = "TransportError" -> <<"Transport error: ">> \o e.message
      [] e.kind = "SerializationError" -> <<"Serialization error: ">> \o e.message

\* str::contains on a text held as pieces
Contains(text, needle) == \E i \in DOMAIN text : text[i] = needle

\* impl From<serde_json::Error> for McpError
FromSerdeError(m) == SerializationError(m)

\* ------------------------------------------------------------- protocol.rs
\* From<Option<Value>> for Value, used by `id.into()` in JsonRpcResponse::success
OptionIntoValue(o) == IF o.t = "Some" THEN o.v ELSE JNull

JsonRpcError(code, message) == [code |-> code, message |-> message, data |-> None]

\* JsonRpcResponse::success
ResponseSuccess(id, result) ==
    [jsonrpc |-> "2.0", id |-> Some(OptionIntoValue(id)), result |-> Some(result),
     error |-> None]

\* the error constructor also fills result
ResponseError_WithResult(id, error) ==
    [jsonrpc |-> "2.0", id |-> id, result |-> Some(JNull), error |-> Some(error)]

\* JsonRpcResponse::error
ResponseError(id, error) ==
    [jsonrpc |-> "2.0", id |-> id, result |-> None, error |-> Some(error)]

\* Deserialize for InitializeParams: the three fields are required
DecodeInitializeParams(v) ==
    IF v.j = "object"
       /\ {"protocolVersion", "capabilities", "clientInfo"} \subseteq DOMAIN v.f
    THEN Ok([protocol_version |-> v.f.protocolVersion, client_info |-> v.f.clientInfo])
    ELSE Err(FromSerdeError(<<"invalid InitializeParams">>))

\* Deserialize for ListToolsParams: a struct without fields
DecodeListToolsParams(v) ==
    IF v.j = "object" THEN Ok(<<>>)
    ELSE Err(FromSerdeError(<<"invalid ListToolsParams">>))

\* Deserialize for CallToolParams: name required, arguments optional
DecodeCallToolParams(v) ==
    IF v.j = "object" /\ "name" \in DOMAIN v.f
    THEN Ok([name |-> v.f.name,
             arguments |-> IF "arguments" \in DOMAIN v.f THEN Some(v.f.arguments)
                           ELSE None])
    ELSE Err(FromSerdeError(<<"invalid CallToolParams">>))

\* Deserialize for JsonRpcRequest, applied to one line of stdin: jsonrpc and
\* method are required; id is an Option (absent or null give None); params
\* defaults to None.
ParseRequest(line) ==
    IF line.kind = "object" /\ {"jsonrpc", "method"} \subseteq DOMAIN line.f
    THEN Ok([id |-> IF "id" \in DOMAIN line.f /\ line.f.id # JNull
                    THEN Some(line.f.id) ELSE None,
             method |-> line.f.method,
             params |-> IF "params" \in DOMAIN line.f THEN Some(line.f.params)
                        ELSE None])
    ELSE Err(<<"invalid JsonRpcRequest">>)

\* ------------------------------------------------------------- registry.rs
\* ToolResult::text / ToolResult::error
ToolResultText(text) == [content |-> <<[type |-> "text", text |-> text]>>, is_error |-> FALSE]
ToolResultError(text) == [content |-> <<[type |-> "text", text |-> text]>>, is_error |-> TRUE]

\* the flag is always carried over
into_call_result_AlwaysFlag(r) == [content |-> r.content, is_error |-> Some(r.is_error)]

\* ToolResult::into_call_result
into_call_result(r) ==
    [content |-> r.content, is_error |-> IF r.is_error THEN Some(TRUE) ELSE None]

\* Serialize for CallToolResult: isError is skipped when None
SerializeCallToolResult(c) ==
    IF c.is_error.t = "Some"
    THEN [content |-> c.content, isError |-> c.is_error.v]
    ELSE [content |-> c.content]

\* ToolInputSchema
ToolInputSchema(properties, required, additional_properties) ==
    [schema_type |-> "object", properties |-> properties, required |-> required,
     additional_properties |-> additional_properties]

\* Tool::with_schema
with_schema(name, description, input_schema, handler) ==
    [definition |-> [name |-> name, description |-> description,
                     input_schema |-> input_schema],
     handler |-> handler]

\* Tool::new: the schema is an object with no properties, nothing required
\* and additional properties allowed
Tool(name, description, handler) ==
    with_schema(name, description, ToolInputSchema(Some({}), <<>>, Some(TRUE)), handler)

\* the handler is given no arguments
ToolInput_NoArguments(name, arguments) == [name |-> name, arguments |-> <<>>]

\* ToolInput::new
ToolInput(name, arguments) == [name |-> name, arguments |-> arguments]

\* ToolInput::get_argument
get_argument(input, key) ==
    IF key \in DOMAIN input.arguments THEN Ok(input.arguments[key])
    ELSE Err(InvalidParams(<<"Missing required argument: ", key>>))

\* a name that is already registered keeps its first tool
register_KeepFirst(tools, tool) ==
    [n \in DOMAIN tools \cup {tool.definition.name} |->
        IF n \in DOMAIN tools THEN tools[n] ELSE tool]

\* ToolRegistry::register: insert or overwrite by name
register(tools, tool) ==
    [n \in DOMAIN tools \cup {tool.definition.name} |->
        IF n = tool.definition.name THEN tool ELSE tools[n]]

\* one registered tool is left out of the list
list_tools_DropOne(tools) ==
    IF DOMAIN tools = {} THEN {}
    ELSE {tools[n].definition : n \in DOMAIN tools \ {CHOOSE m \in DOMAIN tools : TRUE}}

\* ToolRegistry::list_tools (the order of a HashMap's values is not significant)
list_tools(tools) == {tools[n].definition : n \in DOMAIN tools}

\* an unknown name falls back to some registered tool
get_tool_Fallback(tools, name) ==
    IF name \in DOMAIN tools THEN Some(tools[name])
    ELSE IF DOMAIN tools # {} THEN Some(tools[CHOOSE n \in DOMAIN tools : TRUE])
    ELSE None

\* ToolRegistry::get_tool
get_tool(tools, name) == IF name \in DOMAIN tools THEN Some(tools[name]) ELSE None

\* ToolRegistry::len
tool_count == Cardinality(DOMAIN tool_registry)

\* ----------------------------------------------------------------- main.rs
\* What the MISP client call inside a handler can come back with.
ClientOutcomes == {"ok", "api_error", "unserializable"}

\* The handlers that register_misp_tools gives to Tool::new.
HandlerRun(handler, input, outcome) ==
    LET body(what, failed) ==
            CASE outcome = "ok" -> Ok(ToolResultText(<<what>>))
              [] outcome = "api_error" -> Ok(ToolResultError(<<failed, "api error">>))
              [] outcome = "unserializable" -> Err(SerializationError(<<"json">>))
    IN  IF handler = "get_users" THEN body("users", "Failed to get users: ")
        ELSE LET user_id == get_argument(input, "user_id")
             IN  IF ~user_id.ok THEN Err(user_id.e)
                 ELSE body("user", "Failed to get user ")

\* The tools a setup may register: the two MISP tools, and a second
\* definition of get_user.
ToolCatalog ==
    {Tool("get_users", "Retrieve all users from MISP", "get_users"),
     Tool("get_user", "Retrieve a specific user by ID from MISP", "get_user"),
     with_schema("get_user", "Retrieve a user",
                 ToolInputSchema(Some({"user_id"}), <<"user_id">>, None), "get_users")}

\* ------------------------------------------------------------ the requests
Ids == {None, Some(JNum("1")), Some(JStr("1"))}

ClientInfo == [name |-> "client", version |-> "1.0"]

InitializeParamsSet ==
    {None,
     Some(JObj([protocolVersion |-> "2024-11-05", capabilities |-> "{}",
                clientInfo |-> ClientInfo])),
     Some(JObj([protocolVersion |-> "1.0", capabilities |-> "{}",
                clientInfo |-> ClientInfo])),
     Some(JObj([protocolVersion |-> "", capabilities |-> "{}", clientInfo |-> ClientInfo])),
     Some(JObj([protocolVersion |-> "2024-11-05", capabilities |-> "{}"]))}

ListToolsParamsSet == {None, Some(JObj(<<>>)), Some(JStr("x"))}

CallToolParamsSet ==
    {None,
     Some(JObj([name |-> "get_users"])),
     Some(JObj([name |-> "get_user", arguments |-> [user_id |-> "1"]])),
     Some(JObj([name |-> "get_user"])),
     Some(JObj([name |-> "nope"])),
     Some(JObj([arguments |-> [user_id |-> "1"]]))}

Request(id, method, params) == [id |-> id, method |-> method, params |-> params]

Requests ==
    {Request(id, "initialize", p) : id \in Ids, p \in InitializeParamsSet}
    \cup {Request(id, "tools/list", p) : id \in Ids, p \in ListToolsParamsSet}
    \cup {Request(id, "tools/call", p) : id \in Ids, p \in CallToolParamsSet}
    \cup {Request(id, "ping", None) : id \in Ids}

NoRequest == Request(None, "", None)

\* The line a client writes for a request; `idNull` writes an absent id as null.
Line(r, idNull) ==
    LET base == [jsonrpc |-> "2.0", method |-> r.method]
        withId == IF r.id.t = "Some" THEN [id |-> r.id.v]
                  ELSE IF idNull THEN [id |-> JNull] ELSE <<>>
        withParams == IF r.params.t = "Some" THEN [params |-> r.params.v] ELSE <<>>
    IN  [kind |-> "object", f |-> base @@ withId @@ withParams]

StdinLines ==
    {Line(r, b) : r \in Requests, b \in BOOLEAN}
    \cup {[kind |-> "object", f |-> [method |-> "initialize"]],
          [kind |-> "garbage", f |-> <<>>]}

\* ------------------------------------------------------------ transport.rs
\* StdioTransport::read_message after read_line returned zero bytes, failed,
\* or returned a non-blank line
StdioReadResults ==
    {Err(TransportError(<<"EOF reached">>)),
     Err(TransportError(<<"Failed to read from stdin: ", "io error">>))}
    \cup {LET p == ParseRequest(l)
          IN  IF p.ok THEN Ok(p.v)
              ELSE Err(ParseError(<<"Invalid JSON-RPC request: ">> \o p.e)) :
          l \in StdinLines}

\* ChannelTransport::read_message: the next request, or the channel is closed
ChannelReadResults ==
    {Err(TransportError(<<"Request channel closed">>))} \cup {Ok(r) : r \in Requests}

ReadResults(kind) == IF kind = "stdio" THEN StdioReadResults ELSE ChannelReadResults

\* the response is not put on the output
Enqueue_Drop(q, x) == q

\* the output hands out the newest response first
Enqueue_Front(q, x) == <<x>> \o q

\* What a successful write does to the output (the bytes on stdout, the
\* unbounded response channel): the response goes to its end.
Enqueue(q, x) == Append(q, x)

\* a response that cannot be delivered is dropped without an error
WriteResult_SilentDrop(kind, ok) == Ok(<<>>)

\* StdioTransport::write_response / ChannelTransport::write_response. The
\* stdio transport's serde_json::to_string cannot fail on a JsonRpcResponse
\* (strings, an integer and serde_json Values), so a write fails only on I/O.
WriteResult(kind, ok) ==
    IF ok THEN Ok(<<>>)
    ELSE IF kind = "stdio" THEN Err(TransportError(<<"Failed to write to stdout: ", "io error">>))
    ELSE Err(TransportError(<<"Response channel closed">>))

\* a failed flush makes the stdio transport's close fail
close_FlushError(kind, flushOk) ==
    IF kind = "stdio" /\ ~flushOk
    THEN Err(TransportError(<<"Failed to flush stdout on close: ", "io error">>))
    ELSE Ok(<<>>)

\* StdioTransport::close (a failed flush is only logged) / ChannelTransport::close
close(kind, flushOk) == Ok(<<>>)

\* ChannelTransport::new: the inbound channel is empty and its sender alive.
\* `sent` and `delivered` log what went into the channel and what
\* read_message returned; `last` is the latest return of read_message and
\* `dropAt` the number of requests delivered when the sender was dropped.
ChannelNew ==
    [inbound |-> <<>>, open |-> TRUE, sent |-> <<>>, delivered |-> <<>>, last |-> None,
     dropAt |-> None]

\* end-of-stream is reported as soon as the sender is gone
channel_read_message_ClosedFirst(inbound, open) ==
    IF ~open
    THEN Some([result |-> Err(TransportError(<<"Request channel closed">>)),
               rest |-> inbound])
    ELSE IF inbound # <<>>
    THEN Some([result |-> Ok(Head(inbound)), rest |-> Tail(inbound)])
    ELSE None

\* ChannelTransport::read_message: recv() yields the oldest queued request,
\* or nothing once the channel is closed and empty; None here stands for the
\* future staying pending (channel open and empty).
channel_read_message(inbound, open) ==
    IF inbound # <<>>
    THEN Some([result |-> Ok(Head(inbound)), rest |-> Tail(inbound)])
    ELSE IF ~open
    THEN Some([result |-> Err(TransportError(<<"Request channel closed">>)),
               rest |-> inbound])
    ELSE None

\* --------------------------------------------------------------- server.rs
\* the error response loses the request's id
create_error_response_NoId(request_id, error) ==
    [jsonrpc |-> "2.0", id |-> None, result |-> None,
     error |-> Some([code |-> to_json_rpc_code(error), message |-> to_string(error),
                     data |-> None])]

\* Server::create_error_response
create_error_response(request_id, error) ==
    ResponseError(request_id, JsonRpcError(to_json_rpc_code(error), to_string(error)))

\* initialize is refused only after shutdown
AlreadyInitialized_OnlyShutdown(st) == st = "Shutdown"

\* initialize is never refused
AlreadyInitialized_Never(st) == FALSE

\* The lifecycle guard of handle_initialize (line 195)
AlreadyInitialized(st) == st # "Created"

\* tool requests are refused only after shutdown
NotInitialized_OnlyShutdown(st) == st = "Shutdown"

\* tool requests are refused only before initialization
NotInitialized_OnlyCreated(st) == st = "Created"

\* The lifecycle guard of handle_list_tools and handle_call_tool (lines 226, 246)
NotInitialized(st) == st # "Initialized"

\* the result repeats the version the client asked for
protocol_version_Echo(requested) == requested

\* The protocol_version of the InitializeResult (line 216): one fixed string
protocol_version(requested) == "2024-11-05"

\* the state is set before the params are looked at
handle_initialize_StateFirst(st, info, request) ==
    IF AlreadyInitialized(st)
    THEN <<Err(InvalidRequest(<<"Server already initialized">>)), st>>
    ELSE IF request.params.t = "None"
    THEN <<Err(InvalidParams(<<"Missing initialization parameters">>)), "Initialized">>
    ELSE LET params == DecodeInitializeParams(request.params.v)
         IN  IF ~params.ok THEN <<Err(params.e), "Initialized">>
             ELSE IF params.v.protocol_version = ""
             THEN <<Err(InvalidParams(<<"Protocol version is required">>)), "Initialized">>
             ELSE <<Ok(ResponseSuccess(request.id,
                        [protocolVersion |-> protocol_version(params.v.protocol_version),
                         serverInfo |-> info,
                         capabilities |-> [tools |-> "{}"]])),
                    "Initialized">>

\* refusing a repeated initialize puts the server back to Created
handle_initialize_ResetOnRefusal(st, info, request) ==
    IF AlreadyInitialized(st)
    THEN <<Err(InvalidRequest(<<"Server already initialized">>)),
           IF st = "Initialized" THEN "Created" ELSE st>>
    ELSE IF request.params.t = "None"
    THEN <<Err(InvalidParams(<<"Missing initialization parameters">>)), st>>
    ELSE LET params == DecodeInitializeParams(request.params.v)
         IN  IF ~params.ok THEN <<Err(params.e), st>>
             ELSE IF params.v.protocol_version = ""
             THEN <<Err(InvalidParams(<<"Protocol version is required">>)), st>>
             ELSE <<Ok(ResponseSuccess(request.id,
                        [protocolVersion |-> protocol_version(params.v.protocol_version),
                         serverInfo |-> info,
                         capabilities |-> [tools |-> "{}"]])),
                    "Initialized">>

\* Server::handle_initialize: <<result, state afterwards>>
handle_initialize(st, info, request) ==
    IF AlreadyInitialized(st)
    THEN <<Err(InvalidRequest(<<"Server already initialized">>)), st>>
    ELSE IF request.params.t = "None"
    THEN <<Err(InvalidParams(<<"Missing initialization parameters">>)), st>>
    ELSE LET params == DecodeInitializeParams(request.params.v)
         IN  IF ~params.ok THEN <<Err(params.e), st>>
             ELSE IF params.v.protocol_version = ""
             THEN <<Err(InvalidParams(<<"Protocol version is required">>)), st>>
             ELSE <<Ok(ResponseSuccess(request.id,
                        [protocolVersion |-> protocol_version(params.v.protocol_version),
                         serverInfo |-> info,
                         capabilities |-> [tools |-> "{}"]])),
                    "Initialized">>

\* Server::handle_list_tools
handle_list_tools(st, tools, request) ==
    IF NotInitialized(st)
    THEN Err(InvalidRequest(<<"Server not initialized">>))
    ELSE LET params == IF request.params.t = "Some"
                       THEN DecodeListToolsParams(request.params.v) ELSE Ok(<<>>)
         IN  IF ~params.ok THEN Err(params.e)
             ELSE Ok(ResponseSuccess(request.id, [tools |-> list_tools(tools)]))

\* Server::handle_call_tool up to the handler invocation: an error, or the
\* tool and the input that ToolRegistry::execute_tool hands to Tool::execute
call_tool_dispatch(st, tools, request) ==
    IF NotInitialized(st)
    THEN Err(InvalidRequest(<<"Server not initialized">>))
    ELSE IF request.params.t = "None"
    THEN Err(InvalidParams(<<"Missing tool call parameters">>))
    ELSE LET params == DecodeCallToolParams(request.params.v)
         IN  IF ~params.ok THEN Err(params.e)
             ELSE LET arguments == IF params.v.arguments.t = "Some"
                                   THEN params.v.arguments.v ELSE <<>>
                      tool == get_tool(tools, params.v.name)
                  IN  IF tool.t = "None" THEN Err(ToolNotFound(params.v.name))
                      ELSE Ok([tool |-> tool.v,
                               input |-> ToolInput(params.v.name, arguments)])

\* the handler's own error is passed on as it is
call_tool_finish_Propagate(request, name, handlerResult) ==
    IF handlerResult.ok
    THEN Ok(ResponseSuccess(request.id,
                            SerializeCallToolResult(into_call_result(handlerResult.v))))
    ELSE Err(handlerResult.e)

\* ToolRegistry::execute_tool and Server::handle_call_tool after the handler
\* has resolved
call_tool_finish(request, name, handlerResult) ==
    IF handlerResult.ok
    THEN Ok(ResponseSuccess(request.id,
                            SerializeCallToolResult(into_call_result(handlerResult.v))))
    ELSE Err(ToolExecutionError(name, to_string(handlerResult.e)))

\* Server::handle_next_request, lines 169-175: the response for a processing result
response_of(request, result) ==
    IF result.ok THEN result.v ELSE create_error_response(request.id, result.e)

\* the loop keeps going after a transport failure
LoopOnError_Continue(e) ==
    IF e.kind = "TransportError" /\ Contains(e.message, "EOF reached")
    THEN "client_disconnect"
    ELSE "continue"

\* every transport error is taken for the client going away
LoopOnError_AllDisconnect(e) ==
    IF e.kind = "TransportError" THEN "client_disconnect" ELSE "continue"

\* the loop stops at any error
LoopOnError_BreakOnAny(e) ==
    IF e.kind = "TransportError" /\ Contains(e.message, "EOF reached")
    THEN "client_disconnect"
    ELSE "transport_error"

\* Server::run_with_transport, lines 137-152: what the loop does with an error
LoopOnError(e) ==
    IF e.kind = "TransportError" /\ Contains(e.message, "EOF reached")
    THEN "client_disconnect"
    ELSE IF e.kind = "TransportError" THEN "transport_error"
    ELSE "continue"

\* the loop goes back to reading while the handler runs
AwaitHandler_Spawn == "read"

\* Where the task is once handle_call_tool has invoked the handler: suspended
\* in execute_tool(...).await (line 259) until the handler resolves.
AwaitHandler == "handler"

\* ------------------------------------------------------------------- Init
\* Server::new
Init ==
    /\ state = "Created"
    /\ server_info \in {[name |-> "misp-mcp-server", version |-> "0.1.0"],
                        [name |-> "my-server", version |-> "1.0.0"]}
    /\ tool_registry = <<>>
    /\ pc = "setup"
    /\ transport = "none"
    /\ outOk = TRUE
    /\ depth = 0
    /\ req = NoRequest
    /\ resp = None
    /\ pending = None
    /\ nRead = 0
    /\ written = <<>>
    /\ handlerCalls = 0
    /\ loopErr = None
    /\ exit = "none"
    /\ closeCount = 0
    /\ runs = 0
    /\ added = <<>>
    /\ chan = ChannelNew
    /\ returned = None

\* ---------------------------------------------------------------- actions
\* Server::add_tool, callable whenever no run holds the server
AddTool ==
    /\ pc \in {"setup", "done"}
    /\ \E tool \in ToolCatalog : tool_registry' = register(tool_registry, tool)
    /\ UNCHANGED <<state, server_info, pc, transport, outOk, depth, req, resp, pending,
                   nRead, written, handlerCalls, loopErr, exit, closeCount, runs,
                   added, chan, returned>>

\* Server::run_with_transport is called (run_stdio gives it a StdioTransport)
Run ==
    /\ pc \in {"setup", "done"}
    /\ runs < MaxRuns
    /\ \E kind \in {"stdio", "channel"} : transport' = kind
    /\ pc' = "read"
    /\ outOk' = TRUE
    /\ depth' = 0
    /\ req' = NoRequest
    /\ resp' = None
    /\ pending' = None
    /\ nRead' = 0
    /\ written' = <<>>
    /\ handlerCalls' = 0
    /\ loopErr' = None
    /\ exit' = "none"
    /\ closeCount' = 0
    /\ runs' = runs + 1
    /\ returned' = None
    /\ UNCHANGED <<state, server_info, tool_registry, added, chan>>

\* a server whose loop is left starts over
LeaveLoop_Rollback(how) ==
    /\ exit' = how
    /\ state' = "Created"
    /\ pc' = "close"

\* the loop is left without the state being set
LeaveLoop_KeepState(how) ==
    /\ exit' = how
    /\ state' = state
    /\ pc' = "close"

\* The loop is left: lines 142/150 (break), 156 (state = Shutdown)
LeaveLoop(how) ==
    /\ exit' = how
    /\ state' = "Shutdown"
    /\ pc' = "close"

\* a blank line ends the input like EOF
OnBlankLine_Eof == "eof"

\* StdioTransport::read_message, lines 77-81: a line that is empty after
\* trimming is skipped and the next line is read
OnBlankLine == "read_again"

\* StdioTransport::read_message reads a blank line and calls itself
ReadBlank ==
    /\ pc = "read"
    /\ transport = "stdio"
    /\ depth < MaxBlank
    /\ IF OnBlankLine = "read_again"
       THEN /\ depth' = depth + 1
            /\ UNCHANGED <<state, pc, loopErr, exit>>
       ELSE /\ depth' = 0
            /\ loopErr' = Some(TransportError(<<"EOF reached">>))
            /\ LeaveLoop("client_disconnect")
    /\ UNCHANGED <<server_info, tool_registry, transport, outOk, req, resp,
                   pending, nRead, written, handlerCalls, closeCount, runs,
                   added, chan, returned>>

\* handle_next_request: read_message returns, and on an error the loop decides
ReadMessage ==
    /\ pc = "read"
    /\ \E r \in ReadResults(transport) :
          /\ r.ok => nRead < MaxRequests
          /\ depth' = 0
          /\ IF r.ok
             THEN /\ req' = r.v
                  /\ resp' = None
                  /\ nRead' = nRead + 1
                  /\ handlerCalls' = 0
                  /\ loopErr' = None
                  /\ pc' = "process"
                  /\ UNCHANGED <<state, exit>>
             ELSE /\ loopErr' = Some(r.e)
                  /\ IF LoopOnError(r.e) = "continue"
                     THEN UNCHANGED <<state, exit, pc>>
                     ELSE LeaveLoop(LoopOnError(r.e))
                  /\ UNCHANGED <<req, resp, nRead, handlerCalls>>
    /\ UNCHANGED <<server_info, tool_registry, transport, outOk, pending, written,
                   closeCount, runs,
                   added, chan, returned>>

\* Server::process_request for req
ProcessRequest ==
    /\ pc = "process"
    /\ \/ /\ req.method = "initialize"
          /\ LET r == handle_initialize(state, server_info, req)
             IN  /\ state' = r[2]
                 /\ resp' = Some(response_of(req, r[1]))
          /\ pc' = "write"
          /\ UNCHANGED <<pending, handlerCalls>>
       \/ /\ req.method = "tools/list"
          /\ resp' = Some(response_of(req, handle_list_tools(state, tool_registry, req)))
          /\ pc' = "write"
          /\ UNCHANGED <<state, pending, handlerCalls>>
       \/ /\ req.method = "tools/call"
          /\ LET d == call_tool_dispatch(state, tool_registry, req)
             IN  IF d.ok
                 THEN /\ pending' = Some(d.v)
                      /\ handlerCalls' = handlerCalls + 1
                      /\ pc' = AwaitHandler
                      /\ UNCHANGED resp
                 ELSE /\ resp' = Some(response_of(req, d))
                      /\ pc' = "write"
                      /\ UNCHANGED <<pending, handlerCalls>>
          /\ UNCHANGED state
       \/ /\ req.method \notin {"initialize", "tools/list", "tools/call"}
          /\ resp' = Some(response_of(req, Err(MethodNotFound(req.method))))
          /\ pc' = "write"
          /\ UNCHANGED <<state, pending, handlerCalls>>
    /\ UNCHANGED <<server_info, tool_registry, transport, outOk, depth, req, nRead,
                   written, loopErr, exit, closeCount, runs,
                   added, chan, returned>>

\* The awaited handler resolves: Tool::execute returns into execute_tool
HandlerResolve ==
    /\ pc = "handler"
    /\ \E outcome \in ClientOutcomes :
          resp' = Some(response_of(req,
                      call_tool_finish(req, pending.v.input.name,
                          HandlerRun(pending.v.tool.handler, pending.v.input, outcome))))
    /\ pending' = None
    /\ pc' = "write"
    /\ UNCHANGED <<state, server_info, tool_registry, transport, outOk, depth, req, nRead,
                   written, handlerCalls, loopErr, exit, closeCount, runs,
                   added, chan, returned>>

\* handle_next_request: transport.write_response(response), and on an error
\* the loop decides
WriteResponse ==
    /\ pc = "write"
    /\ LET w == WriteResult(transport, outOk)
       IN  IF w.ok
           THEN /\ written' = Enqueue(written, nRead)
                /\ loopErr' = None
                /\ pc' = "read"
                /\ UNCHANGED <<state, exit>>
           ELSE /\ loopErr' = Some(w.e)
                /\ IF LoopOnError(w.e) = "continue"
                   THEN pc' = "read" /\ UNCHANGED <<state, exit>>
                   ELSE LeaveLoop(LoopOnError(w.e))
                /\ UNCHANGED written
    /\ UNCHANGED <<server_info, tool_registry, transport, outOk, depth, req, resp, pending,
                   nRead, handlerCalls, closeCount, runs,
                   added, chan, returned>>

\* The peer closes the pipe stdout writes to, or drops the response receiver
BreakOutput ==
    /\ pc \in {"read", "process", "handler", "write"}
    /\ outOk
    /\ outOk' = FALSE
    /\ UNCHANGED <<state, server_info, tool_registry, pc, transport, depth, req, resp,
                   pending, nRead, written, handlerCalls, loopErr, exit, closeCount, runs,
                   added, chan, returned>>

\* run_with_transport, lines 157-158: transport.close() and return
Close ==
    /\ pc = "close"
    /\ closeCount' = closeCount + 1
    /\ \E flushOk \in BOOLEAN :
          LET closed == close(transport, flushOk)
          IN  returned' = Some(IF closed.ok THEN Ok(<<>>) ELSE Err(closed.e))
    /\ pc' = "done"
    /\ UNCHANGED <<state, server_info, tool_registry, transport, outOk, depth, req, resp,
                   pending, nRead, written, handlerCalls, loopErr, exit, runs,
                   added, chan>>

Next ==
    \/ AddTool
    \/ Run
    \/ ReadBlank
    \/ ReadMessage
    \/ ProcessRequest
    \/ HandlerResolve
    \/ WriteResponse
    \/ BreakOutput
    \/ Close

Spec == Init /\ [][Next]_vars

\* ------------------------------------------- the server with a live peer
\* The steps of Spec while the output stays writable
NextLive ==
    \/ AddTool
    \/ Run
    \/ ReadBlank
    \/ ReadMessage
    \/ ProcessRequest
    \/ HandlerResolve
    \/ WriteResponse
    \/ Close

\* The task that owns the server keeps being polled: once a request is read,
\* processing it, writing its response and, after the loop, closing the
\* transport are taken when they can be, and an invoked handler resolves.
\* Reading is not forced: read_message may wait for input for ever.
SpecLive ==
    /\ Init
    /\ [][NextLive]_vars
    /\ WF_vars(ProcessRequest)
    /\ WF_vars(HandlerResolve)
    /\ WF_vars(WriteResponse)
    /\ WF_vars(Close)

\* ------------------------------------------------ the registry on its own
\* Server::add_tool during setup, with the call recorded
AddToolRecorded ==
    /\ pc = "setup"
    /\ Len(added) < MaxAdds
    /\ \E tool \in ToolCatalog :
          /\ tool_registry' = register(tool_registry, tool)
          /\ added' = Append(added, tool)
    /\ UNCHANGED <<state, server_info, pc, transport, outOk, depth, req, resp, pending,
                   nRead, written, handlerCalls, loopErr, exit, closeCount, runs, chan,
                   returned>>

NextRegistry == AddToolRecorded

\* ------------------------------------- the channel transport on its own
\* the requests a peer puts into the inbound channel
ChannelRequests ==
    {Request(Some(JNum("1")), "initialize", None),
     Request(Some(JStr("1")), "tools/list", None),
     Request(None, "ping", None)}

ChannelUnchanged ==
    UNCHANGED <<state, server_info, tool_registry, pc, transport, outOk, depth, req, resp,
                pending, nRead, written, handlerCalls, loopErr, exit, closeCount, runs,
                added, returned>>

\* the peer sends a request through the UnboundedSender
ChannelSend ==
    /\ chan.open
    /\ Len(chan.sent) < MaxSends
    /\ \E r \in ChannelRequests :
          chan' = [chan EXCEPT !.inbound = Append(@, r), !.sent = Append(@, r)]
    /\ ChannelUnchanged

\* the peer drops the UnboundedSender
ChannelDropSender ==
    /\ chan.open
    /\ chan' = [chan EXCEPT !.open = FALSE, !.dropAt = Some(Len(chan.delivered))]
    /\ ChannelUnchanged

\* a call of ChannelTransport::read_message returns
ChannelRead ==
    /\ LET r == channel_read_message(chan.inbound, chan.open)
       IN  /\ r.t = "Some"
           /\ chan' = [chan EXCEPT !.inbound = r.v.rest,
                                   !.last = Some(r.v.result),
                                   !.delivered = IF r.v.result.ok
                                                 THEN Append(@, r.v.result.v) ELSE @]
    /\ ChannelUnchanged

NextChannel ==
    \/ ChannelSend
    \/ ChannelDropSender
    \/ ChannelRead

\* A ChannelTransport, its peer, and a task that calls read_message on it
SpecChannel == Init /\ [][NextChannel]_vars

\* A new server on which add_tool is called up to MaxAdds times
SpecRegistry == Init /\ [][NextRegistry]_vars

\* ------------------------------------------------------------------ claims
\* r is an error response with the given code
IsError(r, code) ==
    /\ r.t = "Some"
    /\ r.v.error.t = "Some"
    /\ r.v.error.v.code = code
    /\ r.v.result.t = "None"

\* r is a success response
IsSuccess(r) == r.t = "Some" /\ r.v.result.t = "Some" /\ r.v.error.t = "None"

\* the step is process_request working on a request of one of the methods
Dispatch(methods) == pc = "process" /\ pc' # "process" /\ req.method \in methods

\* C1: a tools/list or tools/call dispatched while the state is Created,
\* whatever its params and whatever tools are registered, is answered with
\* error -32600, invokes no handler and leaves the state Created - each time.
C1_PrematureToolRequestRejected ==
    [][(Dispatch({"tools/list", "tools/call"}) /\ state = "Created")
         => /\ state' = "Created"
            /\ pc' = "write"
            /\ handlerCalls' = 0
            /\ IsError(resp', -32600)]_vars

\* a second premature tools/call, naming a registered tool, has been rejected
C1_Witness ==
    /\ pc = "write"
    /\ state = "Created"
    /\ nRead = 2
    /\ written = <<1>>
    /\ req.method = "tools/call"
    /\ req.params = Some(JObj([name |-> "get_users"]))
    /\ "get_users" \in DOMAIN tool_registry
    /\ IsError(resp, -32600)

\* C2: a handler invocation is pending only while the state is Initialized,
\* and a request for which a handler was invoked was never handled in Created.
C2_HandlerOnlyWhenInitialized ==
    /\ (pc = "handler" \/ pending.t = "Some") => state = "Initialized"
    /\ handlerCalls > 0 => state # "Created"

\* the get_user handler has been invoked and has not resolved yet
C2_Witness ==
    /\ pc = "handler"
    /\ state = "Initialized"
    /\ handlerCalls = 1
    /\ pending.t = "Some"
    /\ pending.v.input.name = "get_user"

\* C3 as stated: every change of the state is Created -> Initialized or
\* Initialized -> Shutdown.
C3_NeverReversedNeverSkipped ==
    [][state' = state
       \/ <<state, state'>> \in {<<"Created", "Initialized">>,
                                 <<"Initialized", "Shutdown">>}]_vars

\* C3 as amended: the state never moves backwards; besides Created ->
\* Initialized and Initialized -> Shutdown it goes Created -> Shutdown, and
\* it becomes Shutdown exactly when the loop is left.
C3_NeverReversed ==
    [][/\ \/ state' = state
          \/ <<state, state'>> \in {<<"Created", "Initialized">>,
                                    <<"Initialized", "Shutdown">>,
                                    <<"Created", "Shutdown">>}
       /\ (state' = "Shutdown" /\ state # "Shutdown") => pc' = "close"
       /\ (pc' = "close" /\ pc # "close") => state' = "Shutdown"]_vars

\* a first run has ended without any request: Created went straight to Shutdown
C3_Witness ==
    /\ state = "Shutdown"
    /\ runs = 1
    /\ nRead = 0
    /\ pc = "done"

\* C4: an initialize dispatched while the state is Initialized, whatever its
\* params, is answered with error -32600 and leaves the state Initialized.
C4_SecondInitializeRejected ==
    [][(Dispatch({"initialize"}) /\ state = "Initialized")
         => /\ state' = "Initialized"
            /\ pc' = "write"
            /\ IsError(resp', -32600)]_vars

\* a second initialize with valid params has been rejected
C4_Witness ==
    /\ pc = "write"
    /\ state = "Initialized"
    /\ nRead = 2
    /\ req.method = "initialize"
    /\ req.params.t = "Some"
    /\ DecodeInitializeParams(req.params.v).ok
    /\ IsError(resp, -32600)

\* C5: the responses written are those of requests 1, 2, 3, ... in turn, one
\* each; at the head of the loop every request read has its response written,
\* and while a request is worked on exactly its response is outstanding; after
\* the loop, a response is missing only if the output failed.
C5_OneResponsePerRequest ==
    /\ \A i \in DOMAIN written : written[i] = i
    /\ pc = "read" => Len(written) = nRead
    /\ pc \in {"process", "handler", "write"} => Len(written) = nRead - 1
    /\ pc = "write" => resp.t = "Some"
    /\ pc \in {"close", "done"} =>
          \/ Len(written) = nRead
          \/ Len(written) = nRead - 1 /\ ~outOk

\* three requests have been read and answered, the last one with an error
C5_Witness ==
    /\ pc = "read"
    /\ nRead = 3
    /\ written = <<1, 2, 3>>
    /\ IsError(resp, -32601)

\* C6: when the stdio transport has reported a malformed line, the response
\* last produced is a ParseError response (code -32700) for that line.
C6_MalformedLineAnswered ==
    (loopErr.t = "Some" /\ loopErr.v.kind = "ParseError") => IsError(resp, -32700)

\* C7: the loop has been left only with a TransportError (end-of-stream
\* included) as the last error; after any other error the loop is at its
\* head, about to read the next request.
C7_OnlyTransportErrorsEndLoop ==
    /\ (pc \in {"close", "done"}) <=> (exit # "none")
    /\ exit # "none" => (loopErr.t = "Some" /\ loopErr.v.kind = "TransportError")
    /\ (loopErr.t = "Some" /\ loopErr.v.kind # "TransportError")
          => (pc = "read" /\ exit = "none")
    /\ (pc = "read" /\ resp.t = "Some") => exit = "none"

\* after a malformed line the loop is still running, with requests answered
\* before it
C7_Witness ==
    /\ pc = "read"
    /\ loopErr.t = "Some"
    /\ loopErr.v.kind = "ParseError"
    /\ exit = "none"
    /\ written = <<1>>
    /\ IsError(resp, -32003)

\* the error a transport reports at end-of-stream
IsEndOfStream(e) ==
    e \in {TransportError(<<"EOF reached">>), TransportError(<<"Request channel closed">>)}

\* C8: a run that read no request and ended at end-of-stream was left as a
\* client disconnect, not through the transport-error path.
C8_EmptyRunIsCleanShutdown ==
    (pc \in {"close", "done"} /\ nRead = 0 /\ loopErr.t = "Some"
        /\ IsEndOfStream(loopErr.v))
      => exit = "client_disconnect"

\* C9: the response built for a request with a present id carries that id.
C9_IdRoundTrip ==
    (resp.t = "Some" /\ req.id.t = "Some") => resp.v.id = req.id

\* an error response to a request with the string id "1" has been written
C9_Witness ==
    /\ pc = "read"
    /\ written = <<1>>
    /\ req.id = Some(JStr("1"))
    /\ resp.t = "Some"
    /\ resp.v.id = Some(JStr("1"))
    /\ resp.v.error.t = "Some"

\* C10: every response has exactly one of result and error.
C10_ResultXorError ==
    resp.t = "Some" => ((resp.v.result.t = "Some") # (resp.v.error.t = "Some"))

\* an error response has been written after a success response
C10_Witness ==
    /\ pc = "read"
    /\ written = <<1, 2>>
    /\ state = "Initialized"
    /\ resp.t = "Some"
    /\ resp.v.error.t = "Some"
    /\ resp.v.result.t = "None"


\* C11: a request of a method other than initialize, tools/list and tools/call
\* is answered with error -32601 whose message holds the method name, in
\* state Created as in state Initialized, and leaves the state as it was.
C11_UnknownMethodRejected ==
    [][(pc = "process" /\ pc' # "process"
           /\ req.method \notin {"initialize", "tools/list", "tools/call"})
         => /\ state' = state
            /\ pc' = "write"
            /\ handlerCalls' = 0
            /\ IsError(resp', -32601)
            /\ Contains(resp'.v.error.v.message, req.method)]_vars

\* a ping has been rejected after a successful initialize
C11_Witness ==
    /\ pc = "write"
    /\ state = "Initialized"
    /\ req.method = "ping"
    /\ IsError(resp, -32601)
    /\ resp.v.error.v.message = <<"Method not found: ", "ping">>


\* C12: the responses come out in the order their requests were read: of any
\* two responses written, the earlier one answers the request read earlier.
C12_ResponsesInRequestOrder ==
    \A i, j \in DOMAIN written : i < j => written[i] < written[j]

\* three responses have been written, the last one a success
C12_Witness ==
    /\ Len(written) = 3
    /\ written[1] = 1
    /\ written[3] = 3
    /\ state = "Initialized"
    /\ IsSuccess(resp)


\* C13: at most one request is in flight: at most one read request lacks its
\* response, none does when the loop is about to read, and while a handler
\* invocation is pending the task is suspended on it - one invocation per
\* request at most.
C13_OneRequestInFlight ==
    /\ nRead - Len(written) \in {0, 1}
    /\ pc = "read" => (Len(written) = nRead /\ pending.t = "None")
    /\ pending.t = "Some" => pc = "handler"
    /\ handlerCalls <= 1

\* the second request is a tools/call whose handler has not resolved; the
\* first has been answered
C13_Witness ==
    /\ pc = "handler"
    /\ pending.t = "Some"
    /\ nRead = 2
    /\ written = <<1>>
    /\ handlerCalls = 1


\* the name a tools/call request asks for, when its params decode
CallsTool(request, names) ==
    /\ request.method = "tools/call"
    /\ request.params.t = "Some"
    /\ DecodeCallToolParams(request.params.v).ok
    /\ DecodeCallToolParams(request.params.v).v.name \in names

\* C14: a tools/call dispatched in state Initialized for a name that is not a
\* key of the registry is answered with error -32000, and no handler is
\* invoked for it.
C14_UnknownToolRejected ==
    [][(Dispatch({"tools/call"}) /\ state = "Initialized"
           /\ CallsTool(req, {"get_users", "get_user", "nope"} \ DOMAIN tool_registry))
         => /\ pc' = "write"
            /\ handlerCalls' = 0
            /\ pending'.t = "None"
            /\ IsError(resp', -32000)
            /\ state' = state]_vars

\* with tools registered, a call of the unregistered name nope has been rejected
C14_Witness ==
    /\ pc = "write"
    /\ state = "Initialized"
    /\ CallsTool(req, {"nope"})
    /\ DOMAIN tool_registry = {"get_users", "get_user"}
    /\ handlerCalls = 0
    /\ IsError(resp, -32000)


\* C15: when the awaited handler resolves, the response is a success if the
\* handler returned Ok, and otherwise an error with code -32001 whose message
\* is "Tool execution failed: <tool> - " followed by the text of the handler's
\* error, whatever the kind of that error (its own code is not used); the
\* state is unchanged and the task goes on to write the response.
C15_HandlerErrorWrapped ==
    [][(pc = "handler" /\ pc' # "handler")
         => /\ state' = state
            /\ pc' = "write"
            /\ \E outcome \in ClientOutcomes :
                  LET h == HandlerRun(pending.v.tool.handler, pending.v.input, outcome)
                  IN  IF h.ok THEN IsSuccess(resp')
                      ELSE /\ IsError(resp', -32001)
                           /\ to_json_rpc_code(h.e) # -32001
                           /\ resp'.v.error.v.message =
                                 <<"Tool execution failed: ", pending.v.input.name, " - ">>
                                    \o to_string(h.e)]_vars

\* get_user, called without user_id, failed with InvalidParams inside the
\* handler; the -32001 response has been written and the loop reads again
C15_Witness ==
    /\ pc = "read"
    /\ exit = "none"
    /\ state = "Initialized"
    /\ written = <<1, 2>>
    /\ CallsTool(req, {"get_user"})
    /\ handlerCalls = 1
    /\ IsError(resp, -32001)
    /\ resp.v.error.v.message =
          <<"Tool execution failed: ", "get_user", " - ", "Invalid params: ",
            "Missing required argument: ", "user_id">>


\* C16: a tools/call handled in state Initialized whose params are absent or
\* lack the name field has been answered with error -32602, without any
\* handler invocation.
C16_CallWithoutNameIsInvalidParams ==
    (pc = "write" /\ state = "Initialized" /\ req.method = "tools/call"
        /\ (req.params.t = "None" \/ "name" \notin DOMAIN req.params.v.f))
      => (IsError(resp, -32602) /\ handlerCalls = 0)

\* C17: an initialize handled in state Created whose params are absent, whose
\* protocolVersion is empty or whose clientInfo is missing has been answered
\* with error -32602, the state still being Created.
C17_BadInitializeIsInvalidParams ==
    (pc = "write" /\ req.method = "initialize" /\ state = "Created"
        /\ (\/ req.params.t = "None"
            \/ "clientInfo" \notin DOMAIN req.params.v.f
            \/ req.params.v.f.protocolVersion = ""))
      => IsError(resp, -32602)

\* C18: an initialize dispatched in state Created whose params decode and
\* carry a non-empty version moves the state to Initialized and is answered
\* with a success result whose protocolVersion is "2024-11-05", whatever
\* version was requested, and whose serverInfo is the name and version given
\* to Server::new.
C18_InitializeResult ==
    [][(/\ Dispatch({"initialize"})
        /\ state = "Created"
        /\ req.params.t = "Some"
        /\ DecodeInitializeParams(req.params.v).ok
        /\ req.params.v.f.protocolVersion # "")
         => /\ state' = "Initialized"
            /\ pc' = "write"
            /\ IsSuccess(resp')
            /\ resp'.v.result.v.protocolVersion = "2024-11-05"
            /\ resp'.v.result.v.serverInfo = server_info]_vars

\* a server created as "my-server" 1.0.0 has accepted an initialize asking
\* for version "1.0"
C18_Witness ==
    /\ pc = "write"
    /\ state = "Initialized"
    /\ req.method = "initialize"
    /\ req.params.t = "Some"
    /\ req.params.v.f.protocolVersion = "1.0"
    /\ IsSuccess(resp)
    /\ resp.v.result.v.protocolVersion = "2024-11-05"
    /\ resp.v.result.v.serverInfo = [name |-> "my-server", version |-> "1.0.0"]

\* the names given to add_tool so far
NamesAdded == {added[i].definition.name : i \in DOMAIN added}

\* the tool of the latest add_tool call for name n
LastAdded(n) ==
    LET calls == {i \in DOMAIN added : added[i].definition.name = n}
    IN  added[CHOOSE i \in calls : \A j \in calls : j <= i]

\* the tools of the tools/list result of an initialized server
ListedTools ==
    handle_list_tools("Initialized", tool_registry,
                      Request(None, "tools/list", None)).v.result.v.tools

\* C19: after any sequence of add_tool calls the registry holds, for every
\* name registered, exactly one tool - the one of the latest call for that
\* name, with its description, schema and handler - and nothing else; the
\* tools/list result has exactly that tool's definition for the name; and
\* tool_count is the number of distinct names registered.
C19_LastRegistrationWins ==
    /\ DOMAIN tool_registry = NamesAdded
    /\ \A n \in NamesAdded :
          /\ tool_registry[n] = LastAdded(n)
          /\ {d \in ListedTools : d.name = n} = {LastAdded(n).definition}
    /\ \A d \in ListedTools : d.name \in NamesAdded
    /\ Cardinality(ListedTools) = Cardinality(NamesAdded)
    /\ tool_count = Cardinality(NamesAdded)

\* get_user was registered, then get_users, then get_user again with another
\* description, schema and handler: two tools, get_user being the later one
C19_Witness ==
    /\ Len(added) = 3
    /\ added[1] = Tool("get_user", "Retrieve a specific user by ID from MISP", "get_user")
    /\ added[2].definition.name = "get_users"
    /\ added[3].definition.name = "get_user"
    /\ added[3].definition.description # added[1].definition.description
    /\ added[3].definition.input_schema # added[1].definition.input_schema
    /\ added[3].handler # added[1].handler
    /\ tool_registry["get_user"] = added[3]
    /\ tool_count = 2

\* C20: a tools/call dispatched in state Initialized whose params decode and
\* name a registered tool invokes that tool's handler - once, and not again
\* before the response is written - with a ToolInput whose name is the
\* requested name and whose arguments are the mapping supplied, or the empty
\* mapping when arguments is omitted; and when the handler has resolved, a
\* success response carries exactly the content the handler returned.
C20_RegisteredToolCalled ==
    [][/\ (Dispatch({"tools/call"}) /\ state = "Initialized"
              /\ CallsTool(req, DOMAIN tool_registry))
            => LET p == req.params.v.f
               IN  /\ pc' = "handler"
                   /\ handlerCalls = 0
                   /\ handlerCalls' = 1
                   /\ pending' = Some([tool |-> tool_registry[p.name],
                                       input |-> [name |-> p.name,
                                                  arguments |->
                                                     IF "arguments" \in DOMAIN p
                                                     THEN p.arguments ELSE <<>>]])
       /\ (pc = "handler" /\ pc' # "handler")
            => /\ pc' = "write"
               /\ handlerCalls' = 1
               /\ IsSuccess(resp')
                    => \E outcome \in ClientOutcomes :
                          LET h == HandlerRun(pending.v.tool.handler, pending.v.input,
                                              outcome)
                          IN  /\ h.ok
                              /\ resp'.v.result.v.content = h.v.content
       /\ (pc = "write" /\ pc' # "write") => handlerCalls' = handlerCalls]_vars

\* get_user, called with user_id "1", has run once and its one text item is
\* the content of the success response
C20_Witness ==
    /\ pc = "write"
    /\ state = "Initialized"
    /\ req.method = "tools/call"
    /\ req.params = Some(JObj([name |-> "get_user", arguments |-> [user_id |-> "1"]]))
    /\ "get_user" \in DOMAIN tool_registry
    /\ tool_registry["get_user"].handler = "get_user"
    /\ handlerCalls = 1
    /\ IsSuccess(resp)
    /\ resp.v.result.v = [content |-> <<[type |-> "text", text |-> <<"user">>]>>]

FixedCode ==
    [k \in ErrorKinds |->
        CASE k = "ParseError" -> -32700
          [] k = "InvalidRequest" -> -32600
          [] k = "MethodNotFound" -> -32601
          [] k = "InvalidParams" -> -32602
          [] k = "InternalError" -> -32603
          [] k = "ToolNotFound" -> -32000
          [] k = "ToolExecutionError" -> -32001
          [] k = "TransportError" -> -32002
          [] k = "SerializationError" -> -32003]

\* what process_request returns for a request that invokes no handler
ProcessResult(request) ==
    CASE request.method = "initialize" -> handle_initialize(state, server_info, request)[1]
      [] request.method = "tools/list" -> handle_list_tools(state, tool_registry, request)
      [] request.method = "tools/call" -> call_tool_dispatch(state, tool_registry, request)
      [] OTHER -> Err(MethodNotFound(request.method))

\* C22: the code of every kind of error is the fixed one; whenever
\* process_request ends with an error, the response built for the request is
\* an error response with the fixed code of that error's kind and its text as
\* message; and every error response built carries the text of some kind
\* together with that kind's fixed code.
C22_ErrorsBecomeCodedResponses ==
    [][/\ \A k \in ErrorKinds :
             to_json_rpc_code([kind |-> k, name |-> "", message |-> <<>>]) = FixedCode[k]
       /\ (Dispatch({req.method}) /\ ~ProcessResult(req).ok)
            => /\ pc' = "write"
               /\ IsError(resp', FixedCode[ProcessResult(req).e.kind])
               /\ resp'.v.error.v.message = to_string(ProcessResult(req).e)
       /\ (pc \in {"process", "handler"} /\ pc' = "write" /\ resp'.v.error.t = "Some")
            => \E k \in ErrorKinds :
                  /\ IsError(resp', FixedCode[k])
                  /\ resp'.v.error.v.message[1] =
                        to_string([kind |-> k, name |-> "", message |-> <<>>])[1]]_vars

\* a tools/list whose params are not an object failed to decode: the response
\* carries the code of SerializationError
C22_Witness ==
    /\ pc = "write"
    /\ state = "Initialized"
    /\ req.method = "tools/list"
    /\ req.params = Some(JStr("x"))
    /\ IsError(resp, -32003)
    /\ resp.v.error.v.message[1] = "Serialization error: "

\* C23: once read_message or write_response has failed with a TransportError
\* that is not end-of-stream, the loop has been left through the
\* transport-error exit, not the client-disconnect one, and the state is
\* Shutdown; and after the loop is left, the run reads no further request
\* and writes no further response.
C23_TransportFailureStopsLoop ==
    [][/\ (/\ loopErr'.t = "Some"
           /\ loopErr'.v.kind = "TransportError"
           /\ ~IsEndOfStream(loopErr'.v))
            => /\ pc' \in {"close", "done"}
               /\ state' = "Shutdown"
               /\ exit' = "transport_error"
       /\ (pc \in {"close", "done"} /\ runs' = runs)
            => /\ pc' \in {"close", "done"}
               /\ nRead' = nRead
               /\ written' = written]_vars

\* on the channel transport the second response could not be sent: the run
\* has ended through the transport-error exit
C23_Witness ==
    /\ pc = "done"
    /\ transport = "channel"
    /\ loopErr = Some(TransportError(<<"Response channel closed">>))
    /\ exit = "transport_error"
    /\ state = "Shutdown"
    /\ nRead = 2
    /\ written = <<1>>

\* C24: on the channel transport, the requests read_message has returned,
\* followed by those still queued, are the requests sent, in the order sent;
\* each return of a request is the oldest one queued; while the channel is
\* open and empty read_message does not return; and it returns an error only
\* as end-of-stream, with the sender gone and every request sent before
\* already returned.
C24_ChannelReadsInOrder ==
    [][/\ chan'.delivered \o chan'.inbound = chan'.sent
       /\ chan'.delivered # chan.delivered
            => /\ chan.inbound # <<>>
               /\ chan'.delivered = Append(chan.delivered, Head(chan.inbound))
               /\ chan'.last = Some(Ok(Head(chan.inbound)))
       /\ (chan.inbound = <<>> /\ chan.open)
            => (chan'.last = chan.last /\ chan'.delivered = chan.delivered)
       /\ (chan'.last.t = "Some" /\ ~chan'.last.v.ok)
            => /\ chan'.last.v.e = TransportError(<<"Request channel closed">>)
               /\ ~chan'.open
               /\ chan'.inbound = <<>>
               /\ chan'.delivered = chan'.sent]_vars

\* two different requests were sent and the sender dropped before either was
\* read; both were returned in order, then end-of-stream
C24_Witness ==
    /\ Len(chan.sent) = 2
    /\ chan.sent[1] # chan.sent[2]
    /\ chan.dropAt = Some(0)
    /\ chan.delivered = chan.sent
    /\ chan.last = Some(Err(TransportError(<<"Request channel closed">>)))

\* C25: on the channel transport write_response is never blocked: whenever a
\* response is ready to be written the write can complete. With a live
\* receiver it puts the response on the outbound channel and the loop reads
\* on; with the receiver gone it puts nothing and returns TransportError
\* "Response channel closed", upon which the loop is left through the
\* transport-error exit with state Shutdown.
C25_ChannelWriteFailureEndsLoop ==
    [][/\ (pc = "write" /\ transport = "channel") => ENABLED WriteResponse
       /\ (pc = "write" /\ transport = "channel" /\ pc' # "write" /\ outOk)
            => /\ written' = Append(written, nRead)
               /\ pc' = "read"
               /\ state' = state
       /\ (pc = "write" /\ transport = "channel" /\ pc' # "write" /\ ~outOk)
            => /\ written' = written
               /\ loopErr' = Some(TransportError(<<"Response channel closed">>))
               /\ exit' = "transport_error"
               /\ state' = "Shutdown"
               /\ pc' = "close"]_vars

\* the receiver was dropped before the first response could be sent: the
\* loop has been left and the transport is about to be closed
C25_Witness ==
    /\ pc = "close"
    /\ transport = "channel"
    /\ ~outOk
    /\ nRead = 1
    /\ written = <<>>
    /\ resp.t = "Some"
    /\ loopErr = Some(TransportError(<<"Response channel closed">>))
    /\ state = "Shutdown"

\* what the line after blank lines may bring: a request of each method, and
\* every error read_message can return
LinesAfterBlanks ==
    {r \in StdioReadResults :
        \/ ~r.ok
        \/ /\ r.v.id = Some(JNum("1"))
           /\ r.v.params \in {None,
                               Some(JObj([protocolVersion |-> "2024-11-05",
                                          capabilities |-> "{}", clientInfo |-> ClientInfo])),
                               Some(JObj([name |-> "get_users"]))}}

\* C26: on the stdio transport, reading a blank line changes nothing but the
\* nesting of read_message: no response is built or written for it and the
\* loop stays at its read; and after blank lines everything a line can bring
\* - a request, a malformed line, end of input, a read failure - is still
\* read with the same outcome as without them. The responses written are
\* therefore those of the input without its blank lines.
C26_BlankLinesSkipped ==
    [][/\ ReadBlank
            => /\ pc' = "read"
               /\ UNCHANGED <<state, server_info, tool_registry, transport, outOk, req,
                              resp, pending, nRead, written, handlerCalls, loopErr, exit,
                              closeCount, runs>>
       /\ (pc' = "read" /\ transport' = "stdio" /\ depth' > 0)
            => \A r \in LinesAfterBlanks :
                  (r.ok => nRead' < MaxRequests)
                    => ENABLED (/\ ReadMessage
                                /\ depth' = 0
                                /\ IF r.ok
                                   THEN pc' = "process" /\ req' = r.v
                                        /\ nRead' = nRead + 1
                                   ELSE loopErr' = Some(r.e) /\ nRead' = nRead)]_vars

\* two blank lines have been read after the first request was answered:
\* there is still one response, and the loop is reading
C26_Witness ==
    /\ transport = "stdio"
    /\ pc = "read"
    /\ depth = 2
    /\ nRead = 1
    /\ written = <<1>>
    /\ IsSuccess(resp)
    /\ state = "Initialized"
    /\ exit = "none"

\* C27: reading a blank line on the stdio transport does not add a frame to
\* read_message: the nesting is the same after the line as before it.
C27_BlankSkipIsIterative ==
    [][ReadBlank => depth' = depth]_vars

\* C28: a response is written only for a request that carries an id.
C28_NotificationGetsNoResponse ==
    [][written' # written => (runs' # runs \/ req.id.t = "Some")]_vars

\* C29: while the state is Shutdown no request is being processed or
\* answered, in any run on the same Server.
C29_NoDispatchAfterShutdown ==
    state = "Shutdown" => pc \notin {"process", "handler", "write"}

\* C30: close() returns Ok on both transports, whatever happened to the
\* stream before and whether or not the final flush works; so every run that
\* has ended has closed its transport once and returned Ok(()), and a run
\* that has not ended has returned nothing.
C30_CloseNeverFails ==
    /\ \A kind \in {"stdio", "channel"}, flushOk \in BOOLEAN : close(kind, flushOk).ok
    /\ pc = "done" => (returned = Some(Ok(<<>>)) /\ closeCount = 1)
    /\ pc # "done" => returned = None

\* a stdio run that read one request and then met EOF has returned Ok(())
C30_Witness ==
    /\ pc = "done"
    /\ transport = "stdio"
    /\ nRead = 1
    /\ loopErr = Some(TransportError(<<"EOF reached">>))
    /\ exit = "client_disconnect"
    /\ closeCount = 1
    /\ returned = Some(Ok(<<>>))

\* C31: no step taken while the loop is running - whatever the request, its
\* method and its outcome - changes the registry; and a tools/list dispatched
\* in state Initialized whose params decode is answered with exactly the
\* definitions of the registered tools, one for each registered name. Two
\* such responses of one run therefore list the same set.
C31_RegistryFrozenInLoop ==
    [][/\ (pc \in {"read", "process", "handler", "write", "close"})
            => tool_registry' = tool_registry
       /\ (/\ Dispatch({"tools/list"})
           /\ state = "Initialized"
           /\ (req.params.t = "Some" => DecodeListToolsParams(req.params.v).ok))
            => /\ IsSuccess(resp')
               /\ resp'.v.result.v.tools =
                     {tool_registry[n].definition : n \in DOMAIN tool_registry}
               /\ \A n \in DOMAIN tool_registry :
                     Cardinality({d \in resp'.v.result.v.tools : d.name = n}) = 1
               /\ Cardinality(resp'.v.result.v.tools) = tool_count]_vars

\* the second tools/list of a run has been answered, like the first, with the
\* definitions of the two registered tools
C31_Witness ==
    /\ pc = "write"
    /\ state = "Initialized"
    /\ nRead = 3
    /\ written = <<1, 2>>
    /\ req.method = "tools/list"
    /\ tool_count = 2
    /\ IsSuccess(resp)
    /\ Cardinality(resp.v.result.v.tools) = 2
    /\ {d.name : d \in resp.v.result.v.tools} = {"get_users", "get_user"}

\* the params of an initialize request are acceptable
ValidInitialize(request) ==
    /\ request.params.t = "Some"
    /\ DecodeInitializeParams(request.params.v).ok
    /\ DecodeInitializeParams(request.params.v).v.protocol_version # ""

\* C32: an initialize dispatched in state Created whose params are absent,
\* do not decode or carry an empty version is answered with an error and
\* leaves the state Created; and in state Created - after such rejections
\* too - an initialize with acceptable params is answered with a success and
\* moves the state to Initialized.
C32_RejectedInitializeKeepsCreated ==
    [][/\ (Dispatch({"initialize"}) /\ state = "Created" /\ ~ValidInitialize(req))
            => /\ state' = "Created"
               /\ pc' = "write"
               /\ resp'.t = "Some"
               /\ resp'.v.error.t = "Some"
               /\ resp'.v.result.t = "None"
       /\ (Dispatch({"initialize"}) /\ state = "Created" /\ ValidInitialize(req))
            => /\ state' = "Initialized"
               /\ IsSuccess(resp')]_vars

\* the third request of a first run, a valid initialize, has succeeded: the
\* two requests answered before it had left the state Created
C32_Witness ==
    /\ pc = "write"
    /\ nRead = 3
    /\ written = <<1, 2>>
    /\ req.method = "initialize"
    /\ ValidInitialize(req)
    /\ state = "Initialized"
    /\ IsSuccess(resp)
    /\ runs = 1

\* C33: a step changes the state only if it is a successful initialize, which
\* takes Created to Initialized, or the loop being left, which sets Shutdown.
\* In particular the state is unchanged by the dispatch of tools/list,
\* tools/call and unknown methods, by the dispatch of an initialize that is
\* answered with an error, by a handler resolving with any outcome, by a
\* read that fails with a parse error, and by add_tool.
C33_OnlyInitializeChangesState ==
    [][/\ state' # state
            => \/ /\ Dispatch({"initialize"})
                  /\ state = "Created"
                  /\ state' = "Initialized"
                  /\ IsSuccess(resp')
               \/ /\ pc \in {"read", "write"}
                  /\ pc' = "close"
                  /\ state' = "Shutdown"
       /\ (Dispatch({req.method}) /\ req.method # "initialize") => state' = state
       /\ (Dispatch({"initialize"}) /\ resp'.v.error.t = "Some") => state' = state
       /\ (pc = "handler") => state' = state
       /\ (pc = "read" /\ loopErr'.t = "Some" /\ loopErr'.v.kind = "ParseError")
            => (state' = state /\ pc' = "read")
       /\ AddTool => state' = state]_vars

\* after initialize, a tools/call whose handler failed was answered and then a
\* malformed line was read: the state is still Initialized
C33_Witness ==
    /\ pc = "read"
    /\ state = "Initialized"
    /\ nRead = 2
    /\ written = <<1, 2>>
    /\ req.method = "tools/call"
    /\ IsError(resp, -32001)
    /\ loopErr.t = "Some"
    /\ loopErr.v.kind = "ParseError"

\* C34: whichever way the loop is left - end of input, a failed read, a
\* failed write - the state is Shutdown from that step on and the transport
\* is closed exactly once before the run returns; close() is not called
\* while the loop runs, and no response is written once the loop is left.
C34_ShutdownThenCloseOnce ==
    [][/\ (pc' = "close" /\ pc # "close")
            => /\ pc \in {"read", "write"}
               /\ exit' \in {"client_disconnect", "transport_error"}
               /\ loopErr'.t = "Some"
               /\ state' = "Shutdown"
               /\ closeCount' = 0
       /\ pc' \in {"read", "process", "handler", "write", "close"} => closeCount' = 0
       /\ pc' = "done" => (closeCount' = 1 /\ state' = "Shutdown")
       /\ (closeCount' # closeCount /\ runs' = runs)
            => (pc = "close" /\ pc' = "done" /\ written' = written)
       /\ (pc \in {"close", "done"} /\ runs' = runs) => written' = written]_vars

\* on stdio the second response could not be written: the loop was left, the
\* state set to Shutdown and the transport closed once
C34_Witness ==
    /\ pc = "done"
    /\ transport = "stdio"
    /\ loopErr = Some(TransportError(<<"Failed to write to stdout: ", "io error">>))
    /\ nRead = 2
    /\ written = <<1>>
    /\ state = "Shutdown"
    /\ closeCount = 1

\* C35: when handlers resolve and writes succeed, the n-th request read is
\* eventually answered - its response written, the loop back at its read -
\* and once the loop is left, as it is when the input ends, the run
\* eventually returns with state Shutdown; while a handler has not resolved
\* no request is read and no response is written.
C35_RequestsEventuallyAnswered ==
    /\ \A n \in 1..MaxRequests :
          (pc = "process" /\ nRead = n)
             ~> (pc = "read" /\ nRead = n /\ Len(written) = n /\ written[n] = n)
    /\ (pc = "close") ~> (pc = "done" /\ state = "Shutdown" /\ returned.t = "Some")
    /\ [][/\ (loopErr'.t = "Some" /\ IsEndOfStream(loopErr'.v))
                => (pc' \in {"close", "done"} /\ state' = "Shutdown")
          /\ (pc = "handler")
                => (/\ pc' \in {"handler", "write"}
                    /\ nRead' = nRead
                    /\ written' = written)]_vars

\* with the output writable, the second request, a tools/call whose handler
\* was invoked, has been answered and the loop is reading again
C35_Witness ==
    /\ pc = "read"
    /\ outOk
    /\ nRead = 2
    /\ written = <<1, 2>>
    /\ req.method = "tools/call"
    /\ handlerCalls = 1
    /\ IsSuccess(resp)
    /\ exit = "none"

\* C36: when the success response of an initialize cannot be written, the
\* state, which that initialize made Initialized, goes to Shutdown and not
\* back to Created, the response is not written, and the loop is left; the
\* run then reads and processes no further request.
C36_FailedWriteKeepsInitialize ==
    [][/\ (/\ pc = "write" /\ pc' # "write"
           /\ req.method = "initialize" /\ IsSuccess(resp)
           /\ ~WriteResult(transport, outOk).ok)
            => /\ state = "Initialized"
               /\ state' = "Shutdown"
               /\ pc' = "close"
               /\ written' = written
               /\ loopErr'.t = "Some"
               /\ loopErr'.v.kind = "TransportError"
       /\ state # "Created" => state' # "Created"
       /\ (pc \in {"close", "done"} /\ runs' = runs)
            => (pc' \in {"close", "done"} /\ nRead' = nRead /\ req' = req
                  /\ resp' = resp)]_vars

\* the first request of the first run was a valid initialize whose response
\* could not be written: the run has ended in Shutdown with nothing written
C36_Witness ==
    /\ pc = "done"
    /\ runs = 1
    /\ nRead = 1
    /\ req.method = "initialize"
    /\ IsSuccess(resp)
    /\ ~outOk
    /\ written = <<>>
    /\ state = "Shutdown"
    /\ exit = "transport_error"

TypeOK ==
    /\ state \in {"Created", "Initialized", "Shutdown"}
    /\ pc \in {"setup", "read", "process", "handler", "write", "close", "done"}
    /\ transport \in {"none", "stdio", "channel"}
    /\ outOk \in BOOLEAN
    /\ depth \in 0..MaxBlank
    /\ req \in Requests \cup {NoRequest}
    /\ nRead \in 0..MaxRequests
    /\ Len(written) <= nRead
    /\ exit \in {"none", "client_disconnect", "transport_error"}

====
